---------------------------- MODULE Spec2Model ----------------------------
(***************************************************************************)
(* Upload body pipelines of the raze B2 client: the digest-trailing        *)
(* readers (HashAtEndOfBody, ThrottledHashAtEndOfBody, AsyncReadHashAtEnd, *)
(* BytesStreamHashAtEnd), the rate-limited wrappers (AsyncReadThrottled,   *)
(* BytesStreamThrottled), the declared Content-Length, and the paged       *)
(* listing stream list_all_files_stream.                                   *)
(*                                                                         *)
(* Time is counted in ticks of 1/256000 s, so that one millisecond (the    *)
(* resolution of the blocking reader's sleep) and n/bandwidth seconds for  *)
(* the modelled bandwidths are whole numbers of ticks.  The bandwidths are *)
(* powers of two that divide 10^9: the f32 quotient of the cooperative     *)
(* readers is exact and is a whole number of nanoseconds of a Duration.    *)
(***************************************************************************)
EXTENDS Integers, Sequences, FiniteSets, TLC

\* ------------------------------------------------------------------ bounds
MaxLen == 2

MaxIdle == 1

MaxFiles == 5

MaxListErr == 1

MaxRequests == 7

MaxOps == 4

\* ------------------------------------------------------- program constants
TRAILER_LEN == 40

READ_LIMIT == 2048

TicksPerMs == 256

TicksPerSec == 1000 * TicksPerMs

TEST_BYTES == 512

TEST_BANDWIDTH == 256

TEST_PULL == 16

TEST_BATCH == 4

TEST_TAKE == 16

\* ----------------------------------------------------------------- helpers
Min(a, b) == IF a < b THEN a ELSE b

Bytes == {0, 1}

BufSizes == {0, 1, 39, 40, 41}

ThrottleBufSizes == {0, 16, 41}

Bandwidths == {256, 512}

IdleStep == 1000

RECURSIVE SeqsUpTo(_)
SeqsUpTo(n) ==
    IF n = 0 THEN {<<>>}
    ELSE LET S == SeqsUpTo(n - 1)
         IN  S \cup {Append(s, b) : s \in {t \in S : Len(t) = n - 1}, b \in Bytes}

\* The state of a sha1::Sha1 is a function of the bytes fed so far; it is kept
\* as that byte sequence.  Code(h) is an injective numbering of the sequences.
RECURSIVE Code(_)
Code(h) ==
    IF h = <<>> THEN 1
    ELSE 2 * Code(SubSeq(h, 1, Len(h) - 1)) + h[Len(h)]

\* The 40 hexadecimal digits of the digest: a sequence of 40 digits 0..15 that
\* differs for different inputs and varies with the position.
HexDigest(h) ==
    [i \in 1..TRAILER_LEN |->
        ((IF i % 2 = 1 THEN Code(h) ELSE Code(h) \div 16) + i + 5 * (i \div 16)) % 16]

Take(s, k) == SubSeq(s, 1, Min(k, Len(s)))

Drop(s, k) == SubSeq(s, k + 1, Len(s))

\* ------------------------------------------------------------------- state
VARIABLES
    api,            \* the upload function that built the request
    content_sha1,   \* Sha1Variant / value of the X-Bz-Content-Sha1 mode
    declared,       \* the Content-Length handed to the transport
    kind,           \* the type of the body that the transport pulls from
    inner,          \* what a rate-limited wrapper wraps: "hash" or "file"
    input,          \* the bytes of the file when the upload was built
    src,            \* bytes the wrapped source has not yielded yet
    eof,            \* the wrapped source has reported exhaustion
    appended,       \* the source obtained more data after reporting exhaustion
    hash,           \* sha1::Sha1 state: the bytes fed to update()
    hash_read,      \* trailer bytes already delivered (hash_read field)
    done,           \* BytesStreamHashAtEnd.done
    bandwidth,      \* bytes per second of the throttled bodies
    sleep,          \* deadline of the tokio Sleep of the cooperative wrappers
    now,            \* the clock, in ticks
    out,            \* all bytes delivered to the transport so far
    ret,            \* result of the latest pull
    cap,            \* capacity of the buffer of the latest pull that returned Ok
    lastT,          \* time of the latest delivery of a non-empty chunk
    lastS,          \* size of that chunk (0: none yet)
    firstS,         \* size of the first non-empty chunk (0: none yet)
    slept,          \* total thread::sleep time inserted so far, in ticks
    idleLeft,       \* pauses the consumer may still make between pulls
    caps,           \* the buffer capacities the transport pulls with
    prevKind,       \* the body of an earlier upload of the same file ("": none)
    prevOut,        \* all bytes that earlier body delivered
    files,          \* listing: the names in the bucket, ascending
    batch_size,     \* listing: seed.batch_size
    next_file_name, \* listing: seed.next_file_name (<<>>: None, <<n>>: Some(n))
    batch,          \* listing: seed.batch
    yielded,        \* listing: the Ok items the stream has yielded
    item,           \* listing: the latest answer of the stream
    requests,       \* listing: number of b2_list_file_names calls made
    page,           \* listing: the latest page received
    asked,          \* listing: start_file_name of the latest request (<<>>: none)
    sparse,         \* listing: the server may send an empty page that names a next file
    listErrLeft,    \* listing: failures the server may still answer with
    b2auth,         \* engine: Raze.b2auth (<<>>: None, <<k>>: the B2Auth of key k)
    active_bucket,  \* engine: Raze.active_bucket (<<>>: None, <<b>>: Some(b))
    upload_auth,    \* engine: Raze.upload_auth (<<>>: None)
    op,             \* engine: the latest operation invoked
    result,         \* engine: what that operation returned
    sent,           \* engine: the requests that operation issued, in order
    granted,        \* engine: bucket of the latest UploadAuth the server gave
    nops            \* engine: number of operations invoked

readerVars ==
    <<api, content_sha1, declared, kind, inner, input, src, eof, appended,
      hash, hash_read, done, bandwidth, sleep, now, out, ret, cap, lastT, lastS,
      firstS, slept, idleLeft, caps>>

listVars ==
    <<files, batch_size, next_file_name, batch, yielded, item, requests, page,
      asked, sparse, listErrLeft>>

pairVars == <<prevKind, prevOut>>

engineVars == <<b2auth, active_bucket, upload_auth, op, result, sent, granted, nops>>

otherVars == <<listVars, pairVars, engineVars>>

vars == <<readerVars, listVars, pairVars, engineVars>>

\* -------------------------------------------------------- request building
\* upload_file_streaming and upload_file_throttled send hex_digits_at_end,
\* upload_file sends the precomputed digest, b2_upload_file takes the variant.
Sha1Variants == {"Precomputed", "HexAtEnd", "DoNotVerify"}

\* A request builder that declares the length of the file alone.
ContentLength_FileOnly(a, variant, file_size) == file_size

ContentLength(a, variant, file_size) ==
    CASE a = "upload_file" -> file_size
      [] a = "upload_file_streaming" -> file_size + 40
      [] a = "upload_file_throttled" -> file_size + 40
      [] a = "b2_upload_file" ->
            IF variant = "HexAtEnd" THEN file_size + 40 ELSE file_size

\* The body each upload function hands to the transport.
BlockingKinds == {"HashAtEndOfBody", "ThrottledHashAtEndOfBody"}

AsyncReadKinds == {"AsyncReadHashAtEnd", "AsyncReadThrottled"}

StreamKinds == {"BytesStreamHashAtEnd", "BytesStreamThrottled"}

CooperativeKinds == AsyncReadKinds \cup StreamKinds

ThrottledKinds == {"ThrottledHashAtEndOfBody", "AsyncReadThrottled", "BytesStreamThrottled"}

TrailingKinds == BlockingKinds \cup CooperativeKinds

Uploads ==
    {<<"upload_file", "Precomputed", "Plain">>,
     <<"upload_file_streaming", "HexAtEnd", "HashAtEndOfBody">>,
     <<"upload_file_throttled", "HexAtEnd", "ThrottledHashAtEndOfBody">>,
     <<"b2_upload_file", "Precomputed", "Plain">>,
     <<"b2_upload_file", "DoNotVerify", "Plain">>}
    \cup {<<"b2_upload_file", "HexAtEnd", k>> : k \in CooperativeKinds}

NoRet == [tag |-> "New", n |-> 0]

ListIdle ==
    /\ files = <<>>
    /\ batch_size = 0
    /\ next_file_name = <<>>
    /\ batch = <<>>
    /\ yielded = <<>>
    /\ item = "New"
    /\ requests = 0
    /\ page = [files |-> <<>>, next_file_name |-> <<>>]
    /\ asked = <<>>
    /\ sparse = FALSE
    /\ listErrLeft = 0

NoEarlierUpload == prevKind = "" /\ prevOut = <<>>

\* Raze::new(): an engine that is not authenticated and has no bucket.
Raze_new ==
    /\ b2auth = <<>>
    /\ active_bucket = <<>>
    /\ upload_auth = <<>>
    /\ op = "new"
    /\ result = "None"
    /\ sent = <<>>
    /\ granted = <<>>
    /\ nops = 0

\* A wrapper built with its timer armed one second ahead.
ReaderNew_TimerArmed(u, in, bw, in_kind) ==
    /\ api = u[1]
    /\ content_sha1 = u[2]
    /\ kind = u[3]
    /\ inner = in_kind
    /\ input = in
    /\ declared = ContentLength(u[1], u[2], Len(in))
    /\ src = in
    /\ eof = FALSE
    /\ appended = FALSE
    /\ hash = <<>>
    /\ hash_read = 0
    /\ done = FALSE
    /\ bandwidth = bw
    /\ sleep = TicksPerSec
    /\ now = 0
    /\ out = <<>>
    /\ ret = NoRet
    /\ cap = 0
    /\ lastT = 0
    /\ lastS = 0
    /\ firstS = 0
    /\ slept = 0

ReaderNew(u, in, bw, in_kind) ==
    /\ api = u[1]
    /\ content_sha1 = u[2]
    /\ kind = u[3]
    /\ inner = in_kind
    /\ input = in
    /\ declared = ContentLength(u[1], u[2], Len(in))
    /\ src = in
    /\ eof = FALSE
    /\ appended = FALSE
    /\ hash = <<>>
    /\ hash_read = 0
    /\ done = FALSE
    /\ bandwidth = bw
    /\ sleep = 0
    /\ now = 0
    /\ out = <<>>
    /\ ret = NoRet
    /\ cap = 0
    /\ lastT = 0
    /\ lastS = 0
    /\ firstS = 0
    /\ slept = 0

\* Every upload function, on every file of up to MaxLen bytes; the transport
\* pulls back to back.
Init ==
    /\ \E u \in Uploads, in \in SeqsUpTo(MaxLen) : ReaderNew(u, in, 256, "hash")
    /\ idleLeft = 0
    /\ caps = BufSizes
    /\ ListIdle
    /\ NoEarlierUpload
    /\ Raze_new

\* ------------------------------------------------------ the wrapped source
\* What the wrapped source (a File, an AsyncRead, a Stream of Bytes) may answer
\* to a pull with room for c bytes: between 1 and c of its remaining bytes,
\* 0 bytes when it is exhausted (or c = 0), an error, and, for a cooperative
\* source, Pending.  The file that the throttle tests wrap directly
\* (inner = "file") fills the buffer, or the frame, whenever it has the bytes.
SrcRead(c, cooperative) ==
    {[tag |-> "Ok", k |-> k] :
        k \in IF c = 0 \/ src = <<>> THEN {0}
              ELSE IF inner = "file" THEN {Min(c, Len(src))}
              ELSE 1..Min(c, Len(src))}
    \cup {[tag |-> "Err", k |-> 0]}
    \cup (IF cooperative THEN {[tag |-> "Pending", k |-> 0]} ELSE {})

\* The largest chunk a Stream source frames.
FrameCap == CHOOSE c \in caps : \A d \in caps : d <= c

\* A Stream source yields a chunk of any size up to its frame capacity (an
\* empty one included), None when it is exhausted, an error, or Pending.
SrcNext ==
    {[tag |-> "Ok", k |-> k] :
        k \in IF inner = "file"
              THEN {Min(Len(src), FrameCap)} \ {0}
              ELSE 0..Min(Len(src), FrameCap)}
    \cup (IF src = <<>> THEN {[tag |-> "None", k |-> 0]} ELSE {})
    \cup {[tag |-> "Err", k |-> 0]}
    \cup {[tag |-> "Pending", k |-> 0]}

SrcAfter(r, c) ==
    /\ src' = Drop(src, r.k)
    /\ eof' = (eof \/ (r.tag = "None") \/ (r.tag = "Ok" /\ r.k = 0 /\ c > 0))

\* The file grows after the reader has seen its end.
SourceAppend ==
    /\ kind \in TrailingKinds
    /\ eof /\ ~appended /\ src = <<>>
    /\ src' = <<1>>
    /\ appended' = TRUE
    /\ UNCHANGED <<api, content_sha1, declared, kind, inner, input, eof,
                   hash, hash_read, done, bandwidth, sleep, now, out, ret, cap,
                   lastT, lastS, firstS, slept, idleLeft, caps, otherVars>>

\* ------------------------------------------------------------- bookkeeping
Ok(n) == [tag |-> "Ok", n |-> n]

Result(tag) == [tag |-> tag, n |-> 0]

\* A pull into a buffer of capacity c returned n bytes; cap keeps the capacity
\* of the latest pull that returned Ok.
Returns(n, c) == ret' = Ok(n) /\ cap' = c

Fails(tag) == ret' = Result(tag) /\ cap' = cap

\* The transport receives the bytes b at time t; the times and sizes of the
\* chunks are recorded for the throttled bodies.
Deliver(b, t) ==
    /\ out' = out \o b
    /\ lastT' = IF Len(b) > 0 /\ kind \in ThrottledKinds THEN t ELSE lastT
    /\ lastS' = IF Len(b) > 0 /\ kind \in ThrottledKinds THEN Len(b) ELSE lastS
    /\ firstS' = IF firstS = 0 /\ kind \in ThrottledKinds THEN Len(b) ELSE firstS

NoDelivery == UNCHANGED <<out, lastT, lastS, firstS>>

Fixed == UNCHANGED <<api, content_sha1, declared, kind, inner, input, bandwidth, caps>>

\* ------------------------------------------------- thread-blocking readers
\* A reader that copies every slice of the trailer from the start of the digest.
HashAtEndOfBody_step_SliceFromStart(len, data, buf_size, h, hr) ==
    IF (len = 0 /\ hr = 0) \/ (hr > 0 /\ hr < 40)
    THEN LET end_index == Min(40, hr + buf_size)
         IN  [bytes |-> SubSeq(HexDigest(h), 1, end_index - hr),
              hash |-> h, hash_read |-> end_index]
    ELSE IF len = 0 \/ hr = 40
         THEN [bytes |-> <<>>, hash |-> h, hash_read |-> hr]
         ELSE [bytes |-> data, hash |-> h \o data, hash_read |-> hr]

\* A reader that assigns the size of the slice to the offset instead of adding
\* it.
HashAtEndOfBody_step_OffsetAssigned(len, data, buf_size, h, hr) ==
    IF (len = 0 /\ hr = 0) \/ (hr > 0 /\ hr < 40)
    THEN LET end_index == Min(40, hr + buf_size)
         IN  [bytes |-> SubSeq(HexDigest(h), hr + 1, end_index),
              hash |-> h, hash_read |-> end_index - hr]
    ELSE IF len = 0 \/ hr = 40
         THEN [bytes |-> <<>>, hash |-> h, hash_read |-> hr]
         ELSE [bytes |-> data, hash |-> h \o data, hash_read |-> hr]

\* A reader that copies the whole digest whenever no trailer byte has been
\* sent, whatever the size of the buffer.
HashAtEndOfBody_step_WholeDigest(len, data, buf_size, h, hr) ==
    IF (len = 0 /\ hr = 0) \/ (hr > 0 /\ hr < 40)
    THEN IF hr > 0
         THEN LET end_index == Min(40, hr + buf_size)
              IN  [bytes |-> SubSeq(HexDigest(h), hr + 1, end_index),
                   hash |-> h, hash_read |-> end_index]
         ELSE [bytes |-> HexDigest(h), hash |-> h, hash_read |-> 40]
    ELSE IF len = 0 \/ hr = 40
         THEN [bytes |-> <<>>, hash |-> h, hash_read |-> hr]
         ELSE [bytes |-> data, hash |-> h \o data, hash_read |-> hr]

\* HashAtEndOfBody::read after `let len = self.file.read(buf)?`: data are the
\* len bytes read into buf, buf_size is buf.len().
HashAtEndOfBody_step(len, data, buf_size, h, hr) ==
    IF (len = 0 /\ hr = 0) \/ (hr > 0 /\ hr < 40)
    THEN LET digest == HexDigest(h)
         IN  IF buf_size < 40 \/ hr > 0
             THEN LET end_index == Min(40, hr + buf_size)
                      read_amount == end_index - hr
                  IN  [bytes |-> SubSeq(digest, hr + 1, end_index),
                       hash |-> h, hash_read |-> hr + read_amount]
             ELSE [bytes |-> digest, hash |-> h, hash_read |-> 40]
    ELSE IF len = 0 \/ hr = 40
         THEN [bytes |-> <<>>, hash |-> h, hash_read |-> hr]
         ELSE [bytes |-> data, hash |-> h \o data, hash_read |-> hr]

HashAtEndOfBody_read ==
    /\ kind = "HashAtEndOfBody"
    /\ \E c \in caps : \E r \in SrcRead(c, FALSE) :
          /\ SrcAfter(r, c)
          /\ IF r.tag = "Err"
             THEN /\ Fails("Err")
                  /\ NoDelivery
                  /\ UNCHANGED <<hash, hash_read>>
             ELSE LET s == HashAtEndOfBody_step(r.k, Take(src, r.k), c, hash, hash_read)
                  IN  /\ hash' = s.hash
                      /\ hash_read' = s.hash_read
                      /\ Returns(Len(s.bytes), c)
                      /\ Deliver(s.bytes, now)
    /\ Fixed
    /\ UNCHANGED <<appended, done, sleep, now, slept, idleLeft, otherVars>>

\* std::thread::sleep(Duration::from_millis((usage*1000.) as u64)) with
\* usage = len / bandwidth: whole milliseconds, rounded down; in ticks.
ThrottleSleep(len, bw) == ((len * 1000) \div bw) * TicksPerMs

\* A reader that takes the trailer for sent after its first slice.
ThrottledHashAtEndOfBody_step_OneSlice(len, data, buf_size, h, hr, bw) ==
    IF len = 0 /\ hr = 0
    THEN [bytes |-> SubSeq(HexDigest(h), 1, Min(40, buf_size)),
          hash |-> h, hash_read |-> 40, sleep |-> 0]
    ELSE IF len = 0 \/ hr = 40
         THEN [bytes |-> <<>>, hash |-> h, hash_read |-> hr, sleep |-> 0]
         ELSE [bytes |-> data, hash |-> h \o data, hash_read |-> hr,
               sleep |-> ThrottleSleep(len, bw)]

\* A reader that sends the trailer only into a buffer that holds all of it.
ThrottledHashAtEndOfBody_step_WaitsForRoom(len, data, buf_size, h, hr, bw) ==
    IF len = 0 /\ hr = 0
    THEN IF buf_size < 40
         THEN [bytes |-> <<>>, hash |-> h, hash_read |-> hr, sleep |-> 0]
         ELSE [bytes |-> HexDigest(h), hash |-> h, hash_read |-> 40, sleep |-> 0]
    ELSE IF len = 0 \/ hr = 40
         THEN [bytes |-> <<>>, hash |-> h, hash_read |-> hr, sleep |-> 0]
         ELSE [bytes |-> data, hash |-> h \o data, hash_read |-> hr,
               sleep |-> ThrottleSleep(len, bw)]

\* A reader that sleeps for the digits of the trailer as it does for file bytes.
ThrottledHashAtEndOfBody_step_TrailerSleeps(len, data, buf_size, h, hr, bw) ==
    IF (len = 0 /\ hr = 0) \/ (hr > 0 /\ hr < 40)
    THEN LET end_index == Min(40, hr + buf_size)
         IN  [bytes |-> SubSeq(HexDigest(h), hr + 1, end_index),
              hash |-> h, hash_read |-> end_index,
              sleep |-> ThrottleSleep(end_index - hr, bw)]
    ELSE IF len = 0 \/ hr = 40
         THEN [bytes |-> <<>>, hash |-> h, hash_read |-> hr, sleep |-> 0]
         ELSE [bytes |-> data, hash |-> h \o data, hash_read |-> hr,
               sleep |-> ThrottleSleep(len, bw)]

\* ThrottledHashAtEndOfBody::read after the file read; `sleep` is the time the
\* thread sleeps before the call returns.
ThrottledHashAtEndOfBody_step(len, data, buf_size, h, hr, bw) ==
    IF (len = 0 /\ hr = 0) \/ (hr > 0 /\ hr < 40)
    THEN LET digest == HexDigest(h)
         IN  IF buf_size < 40 \/ hr > 0
             THEN LET end_index == Min(40, hr + buf_size)
                      read_amount == end_index - hr
                  IN  [bytes |-> SubSeq(digest, hr + 1, end_index),
                       hash |-> h, hash_read |-> hr + read_amount, sleep |-> 0]
             ELSE [bytes |-> digest, hash |-> h, hash_read |-> 40, sleep |-> 0]
    ELSE IF len = 0 \/ hr = 40
         THEN [bytes |-> <<>>, hash |-> h, hash_read |-> hr, sleep |-> 0]
         ELSE [bytes |-> data, hash |-> h \o data, hash_read |-> hr,
               sleep |-> ThrottleSleep(len, bw)]

ThrottledHashAtEndOfBody_read ==
    /\ kind = "ThrottledHashAtEndOfBody"
    /\ \E c \in caps :
       \E r \in SrcRead(IF c >= READ_LIMIT THEN READ_LIMIT ELSE c, FALSE) :
          /\ SrcAfter(r, c)
          /\ IF r.tag = "Err"
             THEN /\ Fails("Err")
                  /\ NoDelivery
                  /\ UNCHANGED <<hash, hash_read, now, slept>>
             ELSE LET s == ThrottledHashAtEndOfBody_step(r.k, Take(src, r.k), c,
                                                         hash, hash_read, bandwidth)
                  IN  /\ hash' = s.hash
                      /\ hash_read' = s.hash_read
                      /\ now' = now + s.sleep
                      /\ slept' = slept + s.sleep
                      /\ Returns(Len(s.bytes), c)
                      /\ Deliver(s.bytes, now + s.sleep)
    /\ Fixed
    /\ UNCHANGED <<appended, done, sleep, idleLeft, otherVars>>

\* A body without a wrapper (the file itself, or its bytes): what the uploads
\* with a precomputed digest or without one hand to the transport.
Plain_read ==
    /\ kind = "Plain"
    /\ \E c \in caps : \E r \in SrcRead(c, FALSE) :
          /\ SrcAfter(r, c)
          /\ IF r.tag = "Err"
             THEN Fails("Err") /\ NoDelivery
             ELSE Returns(r.k, c) /\ Deliver(Take(src, r.k), now)
    /\ Fixed
    /\ UNCHANGED <<appended, hash, hash_read, done, sleep, now, slept, idleLeft,
                   otherVars>>

\* ---------------------------------------------------- cooperative readers
\* A reader that takes the end of the slice from the room in the buffer alone.
AsyncReadHashAtEnd_poll_EndFromRoom(r, data, remaining, h, hr) ==
    IF r.tag # "Ok"
    THEN [tag |-> r.tag, bytes |-> <<>>, hash |-> h, hash_read |-> hr]
    ELSE IF r.k > 0
    THEN [tag |-> "Ok", bytes |-> data, hash |-> h \o data, hash_read |-> hr]
    ELSE IF hr < 40
    THEN LET hash_end_index == Min(40, remaining)
         IN  [tag |-> "Ok", bytes |-> SubSeq(HexDigest(h), hr + 1, hash_end_index),
              hash |-> h, hash_read |-> hash_end_index]
    ELSE [tag |-> "Ok", bytes |-> <<>>, hash |-> h, hash_read |-> hr]

\* A reader that starts a fresh digest when the inner reader fails.
AsyncReadHashAtEnd_poll_ErrRestarts(r, data, remaining, h, hr) ==
    IF r.tag = "Err"
    THEN [tag |-> r.tag, bytes |-> <<>>, hash |-> <<>>, hash_read |-> 0]
    ELSE IF r.tag # "Ok"
    THEN [tag |-> r.tag, bytes |-> <<>>, hash |-> h, hash_read |-> hr]
    ELSE IF r.k > 0
    THEN [tag |-> "Ok", bytes |-> data, hash |-> h \o data, hash_read |-> hr]
    ELSE IF hr < 40
    THEN LET hash_end_index == Min(40, hr + remaining)
         IN  [tag |-> "Ok", bytes |-> SubSeq(HexDigest(h), hr + 1, hash_end_index),
              hash |-> h, hash_read |-> hash_end_index]
    ELSE [tag |-> "Ok", bytes |-> <<>>, hash |-> h, hash_read |-> hr]

\* AsyncReadHashAtEnd::poll_read once the inner poll_read has answered r with
\* data in the buffer; remaining is buf.remaining() after the inner read.
AsyncReadHashAtEnd_poll(r, data, remaining, h, hr) ==
    IF r.tag # "Ok"
    THEN [tag |-> r.tag, bytes |-> <<>>, hash |-> h, hash_read |-> hr]
    ELSE IF r.k > 0
    THEN [tag |-> "Ok", bytes |-> data, hash |-> h \o data, hash_read |-> hr]
    ELSE IF hr < 40
    THEN LET digest == HexDigest(h)
         IN  IF remaining < 40 \/ hr > 0
             THEN LET hash_end_index == Min(40, hr + remaining)
                      hash_read_amount == hash_end_index - hr
                  IN  [tag |-> "Ok", bytes |-> SubSeq(digest, hr + 1, hash_end_index),
                       hash |-> h, hash_read |-> hr + hash_read_amount]
             ELSE [tag |-> "Ok", bytes |-> digest, hash |-> h, hash_read |-> 40]
    ELSE [tag |-> "Ok", bytes |-> <<>>, hash |-> h, hash_read |-> hr]

\* What the ReadBuf of a pull may already hold in its filled part.
Prefilled == {<<>>, <<1>>}

\* The ReadBuf after the inner reader has put k bytes behind the filled part.
InnerFilled(pre, k) ==
    [after_filled |-> pre \o Take(src, k), before_filled_len |-> Len(pre)]

\* A reader that takes all of the filled part for the bytes just read.
NewlyFilled_Whole(b) == b.after_filled

\* &after_filled[before_filled_len..]: the bytes the inner reader has put.
NewlyFilled(b) == Drop(b.after_filled, b.before_filled_len)

AsyncReadHashAtEnd_poll_read ==
    /\ kind = "AsyncReadHashAtEnd"
    /\ \E c \in caps, pre \in Prefilled : \E r \in SrcRead(c, TRUE) :
          LET p == AsyncReadHashAtEnd_poll(r, NewlyFilled(InnerFilled(pre, r.k)),
                                           c - r.k, hash, hash_read)
          IN  /\ SrcAfter(r, c)
              /\ hash' = p.hash
              /\ hash_read' = p.hash_read
              /\ IF p.tag = "Ok"
                 THEN Returns(Len(p.bytes), c) /\ Deliver(p.bytes, now)
                 ELSE Fails(p.tag) /\ NoDelivery
    /\ Fixed
    /\ UNCHANGED <<appended, done, sleep, now, slept, idleLeft, otherVars>>

\* A wrapper that arms its timer with no delay.
ThrottleDelay_None(read_amount, bw) == 0

\* A wrapper that waits twice the time of the chunk.
ThrottleDelay_Double(read_amount, bw) == (2 * read_amount * TicksPerSec) \div bw

\* A wrapper that charges an empty read as one byte.
ThrottleDelay_AtLeastOne(read_amount, bw) ==
    ((IF read_amount = 0 THEN 1 ELSE read_amount) * TicksPerSec) \div bw

\* A wrapper that takes the quotient for milliseconds.
ThrottleDelay_Millis(read_amount, bw) == (read_amount * TicksPerMs) \div bw

\* Duration::from_secs_f32(read_amount as f32 / bandwidth), in ticks.
ThrottleDelay(read_amount, bw) == (read_amount * TicksPerSec) \div bw

\* The reader that AsyncReadThrottled wraps: AsyncReadHashAtEnd, or the file.
InnerPollRead(r, data, remaining) ==
    IF inner = "hash"
    THEN AsyncReadHashAtEnd_poll(r, data, remaining, hash, hash_read)
    ELSE [tag |-> r.tag, bytes |-> data, hash |-> hash, hash_read |-> hash_read]

\* A wrapper that never waits for its timer.
SleepPending_Never == FALSE

\* A wrapper whose timer is still pending at its deadline.
SleepPending_AtDeadline == now <= sleep

\* ready!(this.sleep.as_mut().poll(cx)): Pending until the deadline.
SleepPending == now < sleep

AsyncReadThrottled_poll_read ==
    /\ kind = "AsyncReadThrottled"
    /\ \E c \in caps :
          /\ IF SleepPending
             THEN /\ Fails("Pending")
                  /\ NoDelivery
                  /\ UNCHANGED <<src, eof, hash, hash_read, sleep>>
             ELSE \E pre \in Prefilled : \E r \in SrcRead(c, TRUE) :
                  LET p == InnerPollRead(r, NewlyFilled(InnerFilled(pre, r.k)), c - r.k)
                  IN  /\ SrcAfter(r, c)
                      /\ hash' = p.hash
                      /\ hash_read' = p.hash_read
                      /\ IF p.tag = "Ok"
                         THEN /\ sleep' = now + ThrottleDelay(Len(p.bytes), bandwidth)
                              /\ Returns(Len(p.bytes), c)
                              /\ Deliver(p.bytes, now)
                         ELSE /\ sleep' = sleep
                              /\ Fails(p.tag)
                              /\ NoDelivery
    /\ Fixed
    /\ UNCHANGED <<appended, done, now, slept, idleLeft, otherVars>>

\* A stream that does not record that it has sent the digest.
BytesStreamHashAtEnd_poll_NeverDone(r, data, h, d) ==
    CASE r.tag = "Ok" -> [tag |-> "Ok", bytes |-> data, hash |-> h \o data, done |-> d]
      [] r.tag = "None" ->
            IF ~d
            THEN [tag |-> "Ok", bytes |-> HexDigest(h), hash |-> h, done |-> d]
            ELSE [tag |-> "None", bytes |-> <<>>, hash |-> h, done |-> d]
      [] OTHER -> [tag |-> r.tag, bytes |-> <<>>, hash |-> h, done |-> d]

\* A stream that passes the chunks on without hashing them.
BytesStreamHashAtEnd_poll_NoUpdate(r, data, h, d) ==
    CASE r.tag = "Ok" -> [tag |-> "Ok", bytes |-> data, hash |-> h, done |-> d]
      [] r.tag = "None" ->
            IF ~d
            THEN [tag |-> "Ok", bytes |-> HexDigest(h), hash |-> h, done |-> TRUE]
            ELSE [tag |-> "None", bytes |-> <<>>, hash |-> h, done |-> d]
      [] OTHER -> [tag |-> r.tag, bytes |-> <<>>, hash |-> h, done |-> d]

\* BytesStreamHashAtEnd::poll_next once the inner stream has answered r.
BytesStreamHashAtEnd_poll(r, data, h, d) ==
    CASE r.tag = "Ok" -> [tag |-> "Ok", bytes |-> data, hash |-> h \o data, done |-> d]
      [] r.tag = "None" ->
            IF ~d
            THEN [tag |-> "Ok", bytes |-> HexDigest(h), hash |-> h, done |-> TRUE]
            ELSE [tag |-> "None", bytes |-> <<>>, hash |-> h, done |-> d]
      [] OTHER -> [tag |-> r.tag, bytes |-> <<>>, hash |-> h, done |-> d]

BytesStreamHashAtEnd_poll_next ==
    /\ kind = "BytesStreamHashAtEnd"
    /\ \E r \in SrcNext :
          LET p == BytesStreamHashAtEnd_poll(r, Take(src, r.k), hash, done)
          IN  /\ SrcAfter(r, 0)
              /\ hash' = p.hash
              /\ done' = p.done
              /\ IF p.tag = "Ok"
                 THEN ret' = Ok(Len(p.bytes)) /\ Deliver(p.bytes, now)
                 ELSE ret' = Result(p.tag) /\ NoDelivery
    /\ Fixed
    /\ UNCHANGED <<appended, hash_read, sleep, now, cap, slept, idleLeft, otherVars>>

\* A wrapper that ends the stream when the stream it wraps fails.
InnerPollNext_ErrAsEnd(r, data) ==
    LET p == IF inner = "hash"
             THEN BytesStreamHashAtEnd_poll(r, data, hash, done)
             ELSE [tag |-> r.tag, bytes |-> data, hash |-> hash, done |-> done]
    IN  [p EXCEPT !.tag = IF p.tag = "Err" THEN "None" ELSE p.tag]

\* The stream that BytesStreamThrottled wraps.
InnerPollNext(r, data) ==
    IF inner = "hash"
    THEN BytesStreamHashAtEnd_poll(r, data, hash, done)
    ELSE [tag |-> r.tag, bytes |-> data, hash |-> hash, done |-> done]

BytesStreamThrottled_poll_next ==
    /\ kind = "BytesStreamThrottled"
    /\ IF SleepPending
       THEN /\ ret' = Result("Pending")
            /\ NoDelivery
            /\ UNCHANGED <<src, eof, hash, done, sleep>>
       ELSE \E r \in SrcNext :
            LET p == InnerPollNext(r, Take(src, r.k))
            IN  /\ SrcAfter(r, 0)
                /\ hash' = p.hash
                /\ done' = p.done
                /\ IF p.tag = "Ok"
                   THEN /\ sleep' = now + ThrottleDelay(Len(p.bytes), bandwidth)
                        /\ ret' = Ok(Len(p.bytes))
                        /\ Deliver(p.bytes, now)
                   ELSE /\ sleep' = sleep
                        /\ ret' = Result(p.tag)
                        /\ NoDelivery
    /\ Fixed
    /\ UNCHANGED <<appended, hash_read, now, cap, slept, idleLeft, otherVars>>

\* The tokio timer of a suspended pull fires at its deadline and the scheduler
\* polls the body again.
TimerFire ==
    /\ kind \in {"AsyncReadThrottled", "BytesStreamThrottled"}
    /\ ret.tag = "Pending"
    /\ now < sleep
    /\ now' = sleep
    /\ Fixed
    /\ UNCHANGED <<src, eof, appended, hash, hash_read, done, sleep, out,
                   ret, cap, lastT, lastS, firstS, slept, idleLeft, caps, otherVars>>

\* The consumer lets time pass between two pulls.
ConsumerIdle ==
    /\ kind \in ThrottledKinds
    /\ idleLeft > 0
    /\ lastS > 0
    /\ idleLeft' = idleLeft - 1
    /\ now' = now + IdleStep
    /\ Fixed
    /\ UNCHANGED <<src, eof, appended, hash, hash_read, done, sleep, out,
                   ret, cap, lastT, lastS, firstS, slept, otherVars>>

Next ==
    \/ HashAtEndOfBody_read
    \/ ThrottledHashAtEndOfBody_read
    \/ Plain_read
    \/ AsyncReadHashAtEnd_poll_read
    \/ AsyncReadThrottled_poll_read
    \/ BytesStreamHashAtEnd_poll_next
    \/ BytesStreamThrottled_poll_next
    \/ TimerFire

Spec == Init /\ [][Next]_vars

\* The throttled bodies alone, with both bandwidths and a consumer that may
\* pause between pulls.
ZeroSeqs == {[i \in 1..n |-> 0] : n \in 0..MaxLen}

ThrottledUploads == {u \in Uploads : u[3] \in ThrottledKinds}

InitThrottle ==
    /\ \E u \in ThrottledUploads, in \in ZeroSeqs, bw \in Bandwidths :
          ReaderNew(u, in, bw, "hash")
    /\ idleLeft = MaxIdle
    /\ caps = ThrottleBufSizes
    /\ ListIdle
    /\ NoEarlierUpload
    /\ Raze_new

NextThrottle ==
    \/ ThrottledHashAtEndOfBody_read
    \/ AsyncReadThrottled_poll_read
    \/ BytesStreamThrottled_poll_next
    \/ TimerFire
    \/ ConsumerIdle

SpecThrottle == InitThrottle /\ [][NextThrottle]_vars

\* End-of-stream as the consumer sees it: a pull into a non-empty buffer that
\* returned no byte, or None from a stream.
EndOfStream ==
    IF kind \in StreamKinds
    THEN ret.tag = "None"
    ELSE ret.tag = "Ok" /\ ret.n = 0 /\ cap >= 1

\* The same file is uploaded a second time with the same bandwidth, through
\* b2_upload_file with one of the cooperative bodies, after a thread-blocking
\* body has delivered it to its end.
Reupload ==
    /\ prevKind = ""
    /\ kind \in BlockingKinds
    /\ EndOfStream
    /\ prevKind' = kind
    /\ prevOut' = out
    /\ \E k \in CooperativeKinds : kind' = k
    /\ api' = "b2_upload_file"
    /\ content_sha1' = "HexAtEnd"
    /\ declared' = ContentLength("b2_upload_file", "HexAtEnd", Len(input))
    /\ inner' = "hash"
    /\ src' = input
    /\ eof' = FALSE
    /\ hash' = <<>>
    /\ hash_read' = 0
    /\ done' = FALSE
    /\ sleep' = 0
    /\ now' = 0
    /\ out' = <<>>
    /\ ret' = NoRet
    /\ cap' = 0
    /\ lastT' = 0
    /\ lastS' = 0
    /\ firstS' = 0
    /\ slept' = 0
    /\ UNCHANGED <<input, appended, bandwidth, idleLeft, caps, listVars, engineVars>>

BlockingUploads == {u \in Uploads : u[3] \in BlockingKinds}

InitPair ==
    /\ \E u \in BlockingUploads, in \in SeqsUpTo(MaxLen), bw \in Bandwidths :
          ReaderNew(u, in, bw, "hash")
    /\ idleLeft = 0
    /\ caps = ThrottleBufSizes
    /\ ListIdle
    /\ NoEarlierUpload
    /\ Raze_new

NextPair ==
    \/ HashAtEndOfBody_read
    \/ ThrottledHashAtEndOfBody_read
    \/ AsyncReadHashAtEnd_poll_read
    \/ AsyncReadThrottled_poll_read
    \/ BytesStreamHashAtEnd_poll_next
    \/ BytesStreamThrottled_poll_next
    \/ TimerFire
    \/ Reupload

SpecPair == InitPair /\ [][NextPair]_vars

\* The trailing bodies over a source that may fail at any pull and may obtain
\* more data after it has reported its end.
TrailingUploads == {u \in Uploads : u[3] \in TrailingKinds}

InitLate ==
    /\ \E u \in TrailingUploads, in \in ZeroSeqs : ReaderNew(u, in, 256, "hash")
    /\ idleLeft = 0
    /\ caps = ThrottleBufSizes
    /\ ListIdle
    /\ NoEarlierUpload
    /\ Raze_new

NextLate ==
    \/ HashAtEndOfBody_read
    \/ ThrottledHashAtEndOfBody_read
    \/ AsyncReadHashAtEnd_poll_read
    \/ AsyncReadThrottled_poll_read
    \/ BytesStreamHashAtEnd_poll_next
    \/ BytesStreamThrottled_poll_next
    \/ TimerFire
    \/ SourceAppend

SpecLate == InitLate /\ [][NextLate]_vars

\* The throttle tests: TEST_BYTES bytes through AsyncReadThrottled pulled with
\* TEST_PULL-byte buffers, and through BytesStreamThrottled collected to its
\* end, at TEST_BANDWIDTH bytes per second, on an otherwise idle clock.
TestInput == [i \in 1..TEST_BYTES |-> 0]

InitThrottleTest ==
    /\ \E k \in {"AsyncReadThrottled", "BytesStreamThrottled"} :
          ReaderNew(<<"b2_upload_file", "DoNotVerify", k>>, TestInput,
                    TEST_BANDWIDTH, "file")
    /\ idleLeft = 0
    /\ caps = {TEST_PULL}
    /\ ListIdle
    /\ NoEarlierUpload
    /\ Raze_new

NextThrottleTest ==
    \/ AsyncReadThrottled_poll_read
    \/ BytesStreamThrottled_poll_next
    \/ TimerFire

SpecThrottleTest == InitThrottleTest /\ [][NextThrottleTest]_vars

\* The throttled trailing-digest pipeline (AsyncReadThrottled over
\* AsyncReadHashAtEnd) under a fair scheduler: the transport polls again and
\* again, back to back, with buffers of at least one byte, a registered timer fires, and the
\* wrapped source does not answer Pending or Err forever.
LiveBufSizes == {1, 41}

InitLive ==
    /\ \E in \in ZeroSeqs, bw \in Bandwidths :
          ReaderNew(<<"b2_upload_file", "HexAtEnd", "AsyncReadThrottled">>, in, bw, "hash")
    /\ idleLeft = 0
    /\ caps = LiveBufSizes
    /\ ListIdle
    /\ NoEarlierUpload
    /\ Raze_new

NextLive ==
    \/ AsyncReadThrottled_poll_read
    \/ TimerFire

\* A poll that the wrapped source answers.
SourceAnswers == AsyncReadThrottled_poll_read /\ ret'.tag = "Ok"

SpecLive ==
    /\ InitLive
    /\ [][NextLive]_vars
    /\ WF_vars(AsyncReadThrottled_poll_read)
    /\ WF_vars(TimerFire)
    /\ WF_vars(SourceAnswers)

\* ------------------------------------------------------ the listing stream
\* What b2_list_file_names(start_file_name, max_file_count) may return: the
\* first files whose names are not below the start name, at most
\* max_file_count of them, and the name to continue from when files are left.
\* A server that is not sparse sends at least one file when there is one.
\* File names are numbers; 0 is the empty name.
ListFileNames(start_file_name, max_file_count) ==
    LET rest == SelectSeq(files, LAMBDA f : f >= start_file_name)
    IN  {[files |-> Take(rest, n),
          next_file_name |-> IF n < Len(rest) THEN <<rest[n + 1]>> ELSE <<>>] :
            n \in IF rest = <<>> THEN {0}
                  ELSE (IF sparse THEN 0 ELSE 1)..Min(max_file_count, Len(rest))}

\* A page that puts all of its files into the batch, the first one included.
ListPage_KeepFront(res, b) ==
    [front |-> Take(res.files, 1),
     batch |-> b \o res.files,
     next_file_name |-> res.next_file_name]

\* The Ok arm of inner: the first file of the page is the item, the others go
\* to the batch, and the seed takes the name to continue from.
ListPage(res, b) ==
    [front |-> Take(res.files, 1),
     batch |-> b \o Drop(res.files, 1),
     next_file_name |-> res.next_file_name]

\* A stream that asks for a page at every pull while a name to continue from
\* is known, whether or not files are buffered.
list_all_files_stream_inner_Eager ==
    /\ batch_size > 0
    /\ item # "None"
    /\ IF next_file_name # <<>>
       THEN /\ requests' = requests + 1
            /\ asked' = next_file_name
            /\ \E res \in ListFileNames(next_file_name[1], batch_size) :
                  LET all == batch \o res.files
                  IN  /\ page' = res
                      /\ batch' = Drop(all, 1)
                      /\ next_file_name' = res.next_file_name
                      /\ yielded' = yielded \o Take(all, 1)
                      /\ item' = IF all # <<>> THEN "Ok" ELSE "None"
                      /\ UNCHANGED listErrLeft
       ELSE /\ yielded' = yielded \o Take(batch, 1)
            /\ batch' = Drop(batch, 1)
            /\ item' = IF batch # <<>> THEN "Ok" ELSE "None"
            /\ UNCHANGED <<next_file_name, requests, page, asked, listErrLeft>>
    /\ UNCHANGED <<files, batch_size, sparse, readerVars, pairVars, engineVars>>

\* A stream that forgets the name to continue from when a request fails.
list_all_files_stream_inner_ErrEnds ==
    /\ batch_size > 0
    /\ item # "None"
    /\ IF batch # <<>>
       THEN /\ yielded' = Append(yielded, Head(batch))
            /\ batch' = Tail(batch)
            /\ item' = "Ok"
            /\ UNCHANGED <<next_file_name, requests, page, asked, listErrLeft>>
       ELSE IF next_file_name # <<>>
       THEN /\ requests' = requests + 1
            /\ asked' = next_file_name
            /\ \/ \E res \in ListFileNames(next_file_name[1], batch_size) :
                     /\ page' = res
                     /\ batch' = batch \o Drop(res.files, 1)
                     /\ next_file_name' = res.next_file_name
                     /\ yielded' = yielded \o Take(res.files, 1)
                     /\ item' = IF res.files # <<>> THEN "Ok" ELSE "None"
                     /\ UNCHANGED listErrLeft
               \/ /\ listErrLeft > 0
                  /\ listErrLeft' = listErrLeft - 1
                  /\ item' = "Err"
                  /\ next_file_name' = <<>>
                  /\ UNCHANGED <<batch, yielded, page>>
       ELSE /\ item' = "None"
            /\ UNCHANGED <<batch, next_file_name, yielded, requests, page, asked,
                           listErrLeft>>
    /\ UNCHANGED <<files, batch_size, sparse, readerVars, pairVars, engineVars>>

\* One poll of the stream: list_all_files_stream's inner, with the request it
\* awaits.
list_all_files_stream_inner ==
    /\ batch_size > 0
    /\ item # "None"
    /\ IF batch # <<>>
       THEN /\ yielded' = Append(yielded, Head(batch))
            /\ batch' = Tail(batch)
            /\ item' = "Ok"
            /\ UNCHANGED <<next_file_name, requests, page, asked, listErrLeft>>
       ELSE IF next_file_name # <<>>
       THEN /\ requests' = requests + 1
            /\ asked' = next_file_name
            /\ \/ \E res \in ListFileNames(next_file_name[1], batch_size) :
                     LET p == ListPage(res, batch)
                     IN  /\ page' = res
                         /\ batch' = p.batch
                         /\ next_file_name' = p.next_file_name
                         /\ yielded' = yielded \o p.front
                         /\ item' = IF p.front # <<>> THEN "Ok" ELSE "None"
                         /\ UNCHANGED listErrLeft
               \/ /\ listErrLeft > 0
                  /\ listErrLeft' = listErrLeft - 1
                  /\ item' = "Err"
                  /\ UNCHANGED <<batch, next_file_name, yielded, page>>
       ELSE /\ item' = "None"
            /\ UNCHANGED <<batch, next_file_name, yielded, requests, page, asked,
                           listErrLeft>>
    /\ UNCHANGED <<files, batch_size, sparse, readerVars, pairVars, engineVars>>

FileCounts == (0..MaxFiles) \cup {TEST_TAKE}

BatchSizes == {1, 2, TEST_BATCH}

InitList ==
    /\ ReaderNew(<<"upload_file", "Precomputed", "Plain">>, <<>>, 256, "hash")
    /\ idleLeft = 0
    /\ caps = {}
    /\ NoEarlierUpload
    /\ Raze_new
    /\ \E n \in FileCounts : files = [i \in 1..n |-> i]
    /\ batch_size \in BatchSizes
    /\ next_file_name = <<0>>
    /\ batch = <<>>
    /\ yielded = <<>>
    /\ item = "New"
    /\ requests = 0
    /\ page = [files |-> <<>>, next_file_name |-> <<>>]
    /\ asked = <<>>
    /\ sparse = FALSE
    /\ listErrLeft = MaxListErr

NextList == list_all_files_stream_inner

SpecList == InitList /\ [][NextList]_vars

\* The stream over a server that may send empty pages that name a next file.
InitListSparse ==
    /\ ReaderNew(<<"upload_file", "Precomputed", "Plain">>, <<>>, 256, "hash")
    /\ idleLeft = 0
    /\ caps = {}
    /\ NoEarlierUpload
    /\ Raze_new
    /\ \E n \in 0..MaxFiles : files = [i \in 1..n |-> i]
    /\ batch_size \in BatchSizes
    /\ next_file_name = <<0>>
    /\ batch = <<>>
    /\ yielded = <<>>
    /\ item = "New"
    /\ requests = 0
    /\ page = [files |-> <<>>, next_file_name |-> <<>>]
    /\ asked = <<>>
    /\ sparse = TRUE
    /\ listErrLeft = MaxListErr

NextListSparse == list_all_files_stream_inner

SpecListSparse == InitListSparse /\ [][NextListSparse]_vars

\* ------------------------------------------------- list_all_file_names
\* A loop that keeps the latest page alone.
ListAppend_Replace(list, next_list) ==
    [files |-> next_list.files, next_file_name |-> next_list.next_file_name]

\* list.files.append(&mut next_list.files);
\* list.next_file_name = next_list.next_file_name;
ListAppend(list, next_list) ==
    [files |-> list.files \o next_list.files,
     next_file_name |-> next_list.next_file_name]

\* One request of list_all_file_names: the first call with the empty name, or
\* one turn of the while loop; `yielded` and `next_file_name` hold list.files
\* and list.next_file_name, `item` is "Running" inside the loop and "Ok" or
\* "Err" once the function has returned.
list_all_file_names ==
    /\ batch_size > 0
    /\ item \in {"Start", "Running"}
    /\ requests < MaxRequests
    /\ LET start == IF item = "Start" THEN <<0>> ELSE next_file_name
       IN  /\ asked' = start
           /\ requests' = requests + 1
           /\ \/ \E res \in ListFileNames(start[1], batch_size) :
                    LET list == IF item = "Start"
                                THEN res
                                ELSE ListAppend([files |-> yielded,
                                                 next_file_name |-> next_file_name], res)
                    IN  /\ page' = res
                        /\ yielded' = list.files
                        /\ next_file_name' = list.next_file_name
                        /\ item' = IF list.next_file_name # <<>> THEN "Running" ELSE "Ok"
                        /\ UNCHANGED listErrLeft
              \/ /\ listErrLeft > 0
                 /\ listErrLeft' = listErrLeft - 1
                 /\ item' = "Err"
                 /\ UNCHANGED <<yielded, next_file_name, page>>
    /\ UNCHANGED <<files, batch_size, batch, sparse, readerVars, pairVars, engineVars>>

InitListAll ==
    /\ ReaderNew(<<"upload_file", "Precomputed", "Plain">>, <<>>, 256, "hash")
    /\ idleLeft = 0
    /\ caps = {}
    /\ NoEarlierUpload
    /\ Raze_new
    /\ \E n \in 0..MaxFiles : files = [i \in 1..n |-> i]
    /\ batch_size \in {1, 2}
    /\ next_file_name = <<>>
    /\ batch = <<>>
    /\ yielded = <<>>
    /\ item = "Start"
    /\ requests = 0
    /\ page = [files |-> <<>>, next_file_name |-> <<>>]
    /\ asked = <<>>
    /\ sparse = TRUE
    /\ listErrLeft = MaxListErr

NextListAll == list_all_file_names

SpecListAll == InitListAll /\ [][NextListAll]_vars

\* ------------------------------------------------------------- the engine
Keys == {1, 2}

Buckets == {1, 2}

\* What the server (or the transport) makes of a request.
Answers == {"Ok", "Err"}

UploadOps == {"upload_file", "upload_file_streaming", "upload_file_throttled"}

\* The operations that need the account authorization alone, with the request
\* each of them issues first.
AuthorizedOps ==
    {<<"delete_file_version", "b2_delete_file_version">>,
     <<"list_buckets", "b2_list_buckets">>,
     <<"list_all_file_names", "b2_list_file_names">>,
     <<"update_bucket", "b2_update_bucket">>}

\* An engine that asks for an upload URL without an active bucket.
authenticate_uploading_AnyBucket(auth, bucket, answer) ==
    IF auth = <<>>
    THEN [tag |-> "B2EngineError", sent |-> <<>>, granted |-> granted]
    ELSE IF answer = "Ok"
         THEN [tag |-> "Ok", sent |-> <<"b2_get_upload_url">>, granted |-> bucket]
         ELSE [tag |-> "Err", sent |-> <<"b2_get_upload_url">>, granted |-> granted]

\* Raze::authenticate_uploading: the UploadAuth, or the error, with the
\* request issued.
authenticate_uploading(auth, bucket, answer) ==
    IF auth = <<>>
    THEN [tag |-> "B2EngineError", sent |-> <<>>, granted |-> granted]
    ELSE IF bucket = <<>>
    THEN [tag |-> "B2EngineError", sent |-> <<>>, granted |-> granted]
    ELSE IF answer = "Ok"
         THEN [tag |-> "Ok", sent |-> <<"b2_get_upload_url">>, granted |-> bucket]
         ELSE [tag |-> "Err", sent |-> <<"b2_get_upload_url">>, granted |-> granted]

Invoked(name) == nops < MaxOps /\ nops' = nops + 1 /\ op' = name

EngineOnly == UNCHANGED <<readerVars, listVars, pairVars>>

Raze_authenticate ==
    /\ Invoked("authenticate")
    /\ sent' = <<"b2_authorize_account">>
    /\ \E k \in Keys, answer \in Answers :
          IF answer = "Ok"
          THEN b2auth' = <<k>> /\ result' = "None"
          ELSE b2auth' = b2auth /\ result' = "Err"
    /\ EngineOnly
    /\ UNCHANGED <<active_bucket, upload_auth, granted>>

\* The file of credentials may be unreadable: then no request is made.
Raze_authenticate_from_file ==
    /\ Invoked("authenticate_from_file")
    /\ \E readable \in BOOLEAN, k \in Keys, answer \in Answers :
          IF ~readable
          THEN sent' = <<>> /\ b2auth' = b2auth /\ result' = "Err"
          ELSE /\ sent' = <<"b2_authorize_account">>
               /\ IF answer = "Ok"
                  THEN b2auth' = <<k>> /\ result' = "None"
                  ELSE b2auth' = b2auth /\ result' = "Err"
    /\ EngineOnly
    /\ UNCHANGED <<active_bucket, upload_auth, granted>>

Raze_set_active_bucket ==
    /\ Invoked("set_active_bucket")
    /\ \E b \in Buckets : active_bucket' = <<b>>
    /\ sent' = <<>>
    /\ result' = "None"
    /\ EngineOnly
    /\ UNCHANGED <<b2auth, upload_auth, granted>>

\* Raze::upload_file, upload_file_streaming and upload_file_throttled.
Raze_upload ==
    /\ \E name \in UploadOps : Invoked(name)
    /\ \E a1 \in Answers, a2 \in Answers :
          LET a == authenticate_uploading(b2auth, active_bucket, a1)
          IN  /\ granted' = a.granted
              /\ IF a.tag = "Ok"
                 THEN sent' = a.sent \o <<"b2_upload_file">> /\ result' = a2
                 ELSE sent' = a.sent /\ result' = a.tag
    /\ EngineOnly
    /\ UNCHANGED <<b2auth, active_bucket, upload_auth>>

\* Raze::delete_file_version, list_buckets, list_all_file_names, update_bucket.
Raze_authorized ==
    /\ \E o \in AuthorizedOps :
          /\ Invoked(o[1])
          /\ IF b2auth = <<>>
             THEN sent' = <<>> /\ result' = "B2EngineError"
             ELSE sent' = <<o[2]>> /\ result' \in Answers
    /\ EngineOnly
    /\ UNCHANGED <<b2auth, active_bucket, upload_auth, granted>>

\* Raze::new() or Raze::from_auth(auth), then any operations.
InitEngine ==
    /\ ReaderNew(<<"upload_file", "Precomputed", "Plain">>, <<>>, 256, "hash")
    /\ idleLeft = 0
    /\ caps = {}
    /\ ListIdle
    /\ NoEarlierUpload
    /\ \/ Raze_new
       \/ /\ \E k \in Keys : b2auth = <<k>>
          /\ active_bucket = <<>>
          /\ upload_auth = <<>>
          /\ op = "from_auth"
          /\ result = "None"
          /\ sent = <<>>
          /\ granted = <<>>
          /\ nops = 0

NextEngine ==
    \/ Raze_authenticate
    \/ Raze_authenticate_from_file
    \/ Raze_set_active_bucket
    \/ Raze_upload
    \/ Raze_authorized

SpecEngine == InitEngine /\ [][NextEngine]_vars

\* -------------------------------------------------------------- properties
\* The trailing body has reached Done: the whole trailer has been delivered.
TrailerDone == IF kind \in StreamKinds THEN done ELSE hash_read = 40

\* C1: for HashAtEndOfBody and AsyncReadHashAtEnd, whatever the sizes (>= 1) of
\* the buffers of the pulls, the bytes delivered up to the first pull that
\* returns zero bytes are the bytes of the source followed by the 40 digits of
\* the digest of the source.
C1_OutputIsSourceThenDigest ==
    (kind \in {"HashAtEndOfBody", "AsyncReadHashAtEnd"} /\ EndOfStream)
        => out = input \o HexDigest(input)

C1_Witness ==
    /\ kind = "HashAtEndOfBody"
    /\ EndOfStream
    /\ cap = 1
    /\ Len(input) = 2
    /\ Len(out) = 42

\* C2: a trailing pipeline driven to its end has delivered exactly S + 40
\* bytes for a source of S bytes, which is the declared Content-Length.
C2_DeliveredEqualsDeclared ==
    (kind \in TrailingKinds /\ EndOfStream)
        => (Len(out) = Len(input) + 40 /\ Len(out) = declared)

C2_Witness ==
    /\ kind = "ThrottledHashAtEndOfBody"
    /\ EndOfStream
    /\ Len(input) = 1
    /\ Len(out) = 41
    /\ declared = 41

C4_DonePullsReturnNothing ==
    [][(kind \in TrailingKinds /\ TrailerDone)
          => (ret'.tag \in {"Ok", "None", "Pending"} /\ ret'.n = 0)]_vars

\* C5: for the same source and the same bandwidth, a cooperative body delivers
\* the very bytes that a thread-blocking body delivered.
C5_CooperativeMatchesBlocking ==
    (prevKind \in BlockingKinds /\ kind \in CooperativeKinds /\ EndOfStream)
        => out = prevOut

C5_Witness ==
    /\ prevKind = "ThrottledHashAtEndOfBody"
    /\ kind = "BytesStreamHashAtEnd"
    /\ EndOfStream
    /\ Len(input) = 2
    /\ Len(out) = 42

\* The step delivers a chunk after an earlier one.
NextChunk == lastS > 0 /\ Len(out') > Len(out)

C7_DrainTime ==
    (kind \in {"AsyncReadThrottled", "BytesStreamThrottled"} /\ EndOfStream)
        => now * bandwidth >= (Len(out) - firstS) * TicksPerSec

C7_Witness ==
    /\ kind = "BytesStreamThrottled"
    /\ EndOfStream
    /\ Len(out) = 42
    /\ firstS = 1
    /\ bandwidth = 256
    /\ now = 42000

\* The test drain is complete: read_exact has filled the last buffer, or the
\* collected stream has ended.
TestDrained ==
    IF kind = "AsyncReadThrottled" THEN Len(out) = TEST_BYTES ELSE ret.tag = "None"

\* C8: draining 512 bytes at 256 bytes per second, in 16-byte pulls or as a
\* stream collected to its end, takes 2.0 s of clock time, within 0.2 s.
C8_TestDrainTakesTwoSeconds ==
    (Len(input) = TEST_BYTES /\ bandwidth = TEST_BANDWIDTH /\ TestDrained)
        => /\ 10 * now > 18 * TicksPerSec
           /\ 10 * now < 22 * TicksPerSec

C8_Witness ==
    /\ kind = "AsyncReadThrottled"
    /\ Len(input) = TEST_BYTES
    /\ Len(out) = TEST_BYTES
    /\ lastS = TEST_PULL
    /\ 16 * now = 31 * TicksPerSec

\* C9: an upload of a file of N bytes through ThrottledHashAtEndOfBody with
\* bandwidth B has slept at least N / B seconds in total when the file is
\* drained, for every N, B and sequence of buffer sizes.
C9_SleepsAtLeastFileTime ==
    (kind = "ThrottledHashAtEndOfBody" /\ EndOfStream)
        => slept * bandwidth >= Len(input) * TicksPerSec

\* What a single b2_list_file_names call from the empty name returns when it
\* is asked for k files.
FirstFiles(k) == Take(files, Min(k, Len(files)))

\* C10: with any batch_size, the first k items the listing stream yields are
\* the first k files that b2_list_file_names returns from the empty start
\* name, in the same order: none duplicated, skipped or reordered.
C10_StreamYieldsFirstFiles ==
    \A k \in 0..Len(yielded) : Take(yielded, k) = FirstFiles(k)

C10_Witness ==
    /\ batch_size = TEST_BATCH
    /\ Len(yielded) = TEST_TAKE
    /\ requests >= 4
    /\ batch = <<>>

\* The bodies that append the digest themselves.
DigestKinds ==
    {"HashAtEndOfBody", "ThrottledHashAtEndOfBody", "AsyncReadHashAtEnd",
     "BytesStreamHashAtEnd"}

\* C11: when the wrapped source answers a pull with an error, the pull of a
\* digest-trailing body returns the error, delivers no byte and leaves the
\* hash state, the trailer offset, the done flag, the source, the clock and
\* the timer as they were, so that the next pull starts from the same state.
C11_ErrorLeavesStateUnchanged ==
    [][(kind \in DigestKinds /\ ret' # ret /\ ret'.tag = "Err")
          => UNCHANGED <<out, hash, hash_read, done, src, eof, now, sleep,
                         slept, cap>>]_vars

C11_Witness ==
    /\ kind = "AsyncReadHashAtEnd"
    /\ ret.tag = "Err"
    /\ hash_read = 39
    /\ Len(out) = 41
    /\ Len(hash) = 2

\* The bodies whose pulls fill a buffer of the caller.
BufferKinds == BlockingKinds \cup AsyncReadKinds

\* C12: in every state and for every buffer size, a pull keeps the slice of
\* the digest and of the buffer in range (offset <= end index <= 40, bytes
\* written <= capacity of the buffer); a pull with a buffer of length zero
\* that the source does not fail returns zero bytes and changes neither the
\* trailer offset nor the hash state.
C12_SlicesInRange ==
    [][(kind \in BufferKinds) =>
          (/\ hash_read <= hash_read'
           /\ hash_read' <= 40
           /\ (out' # out => Len(out') - Len(out) <= cap')
           /\ ((cap' = 0 /\ ret'.tag = "Ok") =>
                  (ret'.n = 0 /\ out' = out /\ hash' = hash
                   /\ hash_read' = hash_read)))]_vars

C12_Witness ==
    /\ kind = "HashAtEndOfBody"
    /\ cap = 0
    /\ ret = Ok(0)
    /\ hash_read = 39
    /\ src = <<>>

\* C13: the pull in which the source first reports exhaustion delivers trailer
\* bytes itself when the buffer has room, and no pull with a non-empty buffer
\* returns zero bytes before all 40 trailer bytes have been delivered.
C13_TrailerStartsInExhaustionPull ==
    [][(kind \in BufferKinds) =>
          (/\ (~eof /\ eof') =>
                 (ret'.tag = "Ok" /\ ret'.n >= 1 /\ hash_read' = ret'.n
                  /\ Len(out') = Len(out) + ret'.n)
           /\ (ret'.tag = "Ok" /\ ret'.n = 0 /\ cap' >= 1) => hash_read' = 40)]_vars

C13_Witness ==
    /\ kind = "AsyncReadHashAtEnd"
    /\ eof
    /\ ret = Ok(1)
    /\ cap = 1
    /\ hash_read = 1
    /\ Len(input) = 2
    /\ Len(out) = 3

\* C14: while the trailer is being emitted at offset o < 40, a pull into a
\* buffer of capacity c delivers exactly min(40 - o, c) bytes, the digits
\* o .. o + min(40 - o, c) of the digest, and advances the offset by that
\* amount.
C14_TrailerSlice ==
    [][(kind \in BufferKinds /\ src = <<>> /\ hash_read < 40 /\ ret'.tag = "Ok")
          => LET n == Min(40 - hash_read, cap')
             IN  /\ ret'.n = n
                 /\ out' = out \o SubSeq(HexDigest(input), hash_read + 1, hash_read + n)
                 /\ hash_read' = hash_read + n]_vars

C14_Witness ==
    /\ kind = "HashAtEndOfBody"
    /\ src = <<>>
    /\ ret = Ok(1)
    /\ cap = 39
    /\ hash_read = 40
    /\ Len(out) = Len(input) + 40

\* C15: in HashAtEndOfBody, ThrottledHashAtEndOfBody and AsyncReadHashAtEnd
\* the trailer offset hash_read stays within 0..40, is the number of trailer
\* bytes delivered so far (the delivered bytes that were not fed to the hash),
\* and never decreases from one pull to the next.
C15_TrailerOffset ==
    [][(kind \in {"HashAtEndOfBody", "ThrottledHashAtEndOfBody", "AsyncReadHashAtEnd"})
          => /\ 0 <= hash_read' /\ hash_read' <= 40
             /\ Len(out') - Len(hash') = hash_read'
             /\ hash_read <= hash_read']_vars

C15_Witness ==
    /\ kind = "ThrottledHashAtEndOfBody"
    /\ hash_read = 39
    /\ Len(input) = 2
    /\ Len(out) = 41
    /\ ret = Ok(39)

\* C16: in Streaming, a pull that obtains k > 0 bytes from the source feeds
\* exactly those bytes, in order, to the hash and returns them unchanged; the
\* hash is fed nothing else (no trailer byte, no byte the buffer held before
\* the pull), so at exhaustion it has been fed exactly the source bytes.
C16_HashFedSourceBytes ==
    [][(kind \in TrailingKinds) =>
          LET k == Len(src) - Len(src')
          IN  /\ hash' = hash \o Take(src, k)
              /\ hash' \o src' = input
              /\ k > 0 => (/\ ret' = Ok(k)
                           /\ out' = out \o Take(src, k)
                           /\ hash_read' = hash_read
                           /\ done' = done)]_vars

C16_Witness ==
    /\ kind = "AsyncReadHashAtEnd"
    /\ input = <<0, 1>>
    /\ hash = <<0, 1>>
    /\ out = <<0, 1>>
    /\ ret = Ok(1)
    /\ ~eof

\* C17: BytesStreamHashAtEnd passes every chunk of the inner stream on
\* unchanged and in order; when the inner stream ends it yields the 40 digits
\* of the digest of all passed bytes as one more chunk, once (also when the
\* inner stream is empty), and yields end-of-stream only after that.
C17_StreamDigestChunk ==
    [][(kind = "BytesStreamHashAtEnd") =>
          IF ~eof /\ eof'
          THEN /\ ~done /\ done'
               /\ ret' = Ok(40)
               /\ out' = out \o HexDigest(out)
          ELSE /\ out' = out \o Take(src, Len(src) - Len(src'))
               /\ done' = done
               /\ ret'.tag = "None" => done]_vars

C17_Witness ==
    /\ kind = "BytesStreamHashAtEnd"
    /\ input = <<>>
    /\ ret.tag = "None"
    /\ done
    /\ Len(out) = 40

\* Only the first non-empty chunk has been delivered.
FirstChunkOnly == Len(out) > 0 /\ Len(out) = firstS

\* C18 as stated: in ThrottledHashAtEndOfBody, AsyncReadThrottled and
\* BytesStreamThrottled the delay a chunk causes precedes the next chunk and
\* not the chunk itself, so the first chunk is delivered without any delay.
C18_FirstChunkUndelayed ==
    (kind \in ThrottledKinds /\ FirstChunkOnly) => lastT = 0

\* C18, amended: AsyncReadThrottled and BytesStreamThrottled deliver the first
\* chunk without delay and hold the next pull until s/B after it;
\* ThrottledHashAtEndOfBody sleeps s/B, truncated to whole milliseconds,
\* before it returns a chunk of s file bytes, the first one included, and
\* does not sleep before trailer digits.
C18_FirstChunkDelay ==
    FirstChunkOnly =>
        IF kind \in {"AsyncReadThrottled", "BytesStreamThrottled"}
        THEN lastT = 0 /\ sleep >= ThrottleDelay(firstS, bandwidth)
        ELSE IF kind = "ThrottledHashAtEndOfBody" /\ hash_read = 0
        THEN /\ lastT = slept
             /\ slept * bandwidth > (firstS * 1000 - bandwidth) * TicksPerMs
             /\ slept * bandwidth <= firstS * TicksPerSec
        ELSE lastT = 0 /\ slept = 0

C18_Witness ==
    /\ kind = "AsyncReadThrottled"
    /\ bandwidth = 256
    /\ Len(input) = 2
    /\ out = input
    /\ firstS = 2
    /\ lastT = 0
    /\ sleep = 2000

\* The time the latest chunk stands for has elapsed since its delivery.
BudgetElapsed == lastS > 0 /\ (now - lastT) * bandwidth >= lastS * TicksPerSec

\* A step of the body itself, not a pause of the consumer.
PullStep == idleLeft' = idleLeft

\* C19 as stated: in ThrottledHashAtEndOfBody, AsyncReadThrottled and
\* BytesStreamThrottled the wait of a pull is the previous chunk's s/B minus
\* the time elapsed since its delivery: once the consumer has let s/B elapse,
\* the next pull is served without any additional delay.
C19_NoDelayAfterBudgetElapsed ==
    [][(kind \in ThrottledKinds /\ BudgetElapsed)
          => (~SleepPending /\ (PullStep => now' = now))]_vars

\* C19, amended: AsyncReadThrottled and BytesStreamThrottled wait until s/B
\* after the delivery of the previous chunk, so a pull made once s/B has
\* elapsed is served without delay; ThrottledHashAtEndOfBody sleeps k/B,
\* truncated to whole milliseconds, for the k file bytes it has just read,
\* whatever time has elapsed since the previous chunk.
C19_DelayOfPull ==
    [][IF kind \in {"AsyncReadThrottled", "BytesStreamThrottled"}
       THEN BudgetElapsed => (~SleepPending /\ (PullStep => now' = now))
       ELSE (kind = "ThrottledHashAtEndOfBody" /\ PullStep) =>
               LET k == Len(hash') - Len(hash)
               IN  /\ (now' - now) * bandwidth > (k * 1000 - bandwidth) * TicksPerMs
                   /\ (now' - now) * bandwidth <= k * TicksPerSec]_vars

C19_Witness ==
    /\ kind = "BytesStreamThrottled"
    /\ bandwidth = 512
    /\ idleLeft = 0
    /\ Len(out) = 42
    /\ lastS = 40
    /\ lastT = IdleStep
    /\ now = IdleStep

\* A poll of a cooperative wrapper: the clock stands still while it runs.
PollStep == kind \in {"AsyncReadThrottled", "BytesStreamThrottled"} /\ now' = now

\* C20 as stated: a pull of AsyncReadThrottled or BytesStreamThrottled that
\* yields zero bytes (end of stream or an empty chunk) leaves the wake-up
\* deadline as it was before the pull.
C20_ZeroBytePullKeepsDeadline ==
    [][(PollStep /\ ret'.tag \in {"Ok", "None"} /\ out' = out)
          => sleep' = sleep]_vars

\* C20, amended: a pull that returns Ok with zero bytes (a read of no bytes
\* in AsyncReadThrottled, an empty chunk in BytesStreamThrottled) re-arms the
\* deadline to the time of the pull, so it delays nothing; a pull that
\* returns end of stream (None), an error or Pending leaves the deadline as
\* it was.
C20_ZeroBytePullDeadline ==
    [][(PollStep /\ vars' # vars /\ out' = out)
          => IF ret'.tag = "Ok"
             THEN sleep' = now /\ ret'.n = 0
             ELSE sleep' = sleep]_vars

C20_Witness ==
    /\ kind = "AsyncReadThrottled"
    /\ ret = Ok(0)
    /\ lastS > 0
    /\ idleLeft = 0
    /\ sleep = now
    /\ now > lastT + ThrottleDelay(lastS, bandwidth)

\* What the digest-trailing stage under a rate-limited wrapper has yielded so
\* far: the bytes it has hashed, followed by the digits of the trailer it has
\* handed out.
InnerYielded ==
    IF kind = "AsyncReadThrottled"
    THEN hash \o Take(HexDigest(hash), hash_read)
    ELSE hash \o (IF done THEN HexDigest(hash) ELSE <<>>)

\* C21: AsyncReadThrottled and BytesStreamThrottled change timing only.  What
\* the consumer has obtained is exactly what the wrapped stage has yielded, in
\* its order, nothing dropped or duplicated; an error or a Pending of the
\* wrapped stage delivers nothing, end of stream is reported only once the
\* wrapped stream has ended, and while the throttle delay is pending the
\* wrapped source is not pulled.
C21_ThrottleChangesTimingOnly ==
    [][PollStep =>
          /\ out' = InnerYielded'
          /\ hash' \o src' = input
          /\ (now < sleep) =>
                (ret'.tag = "Pending" /\ UNCHANGED <<src, eof, hash, hash_read, done, out>>)
          /\ (ret'.tag = "Ok") => (Len(out') = Len(out) + ret'.n /\ Take(out', Len(out)) = out)
          /\ (ret'.tag # "Ok") => UNCHANGED <<out, hash, hash_read, done>>
          /\ (ret'.tag = "None") => (src = <<>> /\ done /\ out = input \o HexDigest(input))]_vars

C21_Witness ==
    /\ kind = "BytesStreamThrottled"
    /\ ret.tag = "None"
    /\ Len(input) = 2
    /\ out = input \o HexDigest(input)
    /\ bandwidth = 256
    /\ now >= 2000

\* A pull that delivers digits of the trailer.
TrailerPull == hash_read' > hash_read

Drained == out = input \o HexDigest(input) /\ EndOfStream

\* C23: under a fair scheduler the throttled trailing-digest pipeline, pulled
\* with buffers of capacity >= 1, eventually delivers all S + 40 bytes and
\* then reports end of stream, and no pull stays suspended forever.
C23_EventuallyDrained ==
    /\ <>Drained
    /\ (ret.tag = "Pending") ~> (ret.tag # "Pending")

C23_Witness ==
    /\ kind = "AsyncReadThrottled"
    /\ Drained
    /\ Len(input) = 2
    /\ bandwidth = 256
    /\ cap = 1
    /\ now >= 2000 + 40000

\* C24: list_all_files_stream calls the API lazily.  Creating the stream
\* issues no request; a pull issues a request, one, only when the batch is
\* empty; while files are buffered a pull yields the front of the batch
\* without a request.
C24_RequestsAreLazy ==
    [][/\ (item = "New") => (requests = 0 /\ yielded = <<>>)
       /\ IF batch # <<>>
          THEN /\ requests' = requests
               /\ item' = "Ok"
               /\ yielded' = Append(yielded, Head(batch))
               /\ batch' = Tail(batch)
          ELSE /\ requests' \in {requests, requests + 1}
               /\ (requests' = requests) => (next_file_name = <<>> /\ item' = "None")]_vars

C24_Witness ==
    /\ Len(files) = 5
    /\ batch_size = TEST_BATCH
    /\ requests = 1
    /\ yielded = <<1, 2, 3, 4>>
    /\ batch = <<>>
    /\ next_file_name = <<5>>

\* C25: list_all_file_names returns Ok only after a page without
\* next_file_name, its result is the concatenation in request order of the
\* files of every page, the first request starts at the empty name and each
\* further one at the next_file_name of the page before, and it has returned
\* if and only if the latest page carried no next_file_name or the latest
\* request failed.
C25_ListAllFileNames ==
    [][/\ (requests' = requests + 1) =>
             /\ asked' = IF requests = 0 THEN <<0>> ELSE page.next_file_name
             /\ (item' # "Err") => yielded' = yielded \o page'.files
             /\ (item' = "Ok") <=> (item' # "Err" /\ page'.next_file_name = <<>>)
             /\ (item' = "Running") <=> (item' # "Err" /\ page'.next_file_name # <<>>)
             /\ (item' = "Ok") => yielded' = files
       /\ (item \in {"Ok", "Err"}) => UNCHANGED listVars]_vars

C25_Witness ==
    /\ item = "Ok"
    /\ Len(files) = 5
    /\ batch_size = 2
    /\ requests = 6
    /\ yielded = files
    /\ asked = <<5>>
    /\ listErrLeft = MaxListErr

\* An upload operation of the engine has been invoked.
UploadInvoked == nops' = nops + 1 /\ op' \in UploadOps

\* The engine has obtained an upload authorization for its active bucket.
HoldsUploadAuth == active_bucket # <<>> /\ granted = active_bucket

\* C26: the uploads of the engine get upload authentication if needed: on an
\* authenticated engine with an active bucket the upload authorization is
\* requested before the upload request, and an engine that has already
\* obtained an upload authorization for the active bucket does not request a
\* new one.
C26_UploadAuthIfNeeded ==
    [][(UploadInvoked /\ b2auth # <<>> /\ active_bucket # <<>>) =>
          IF HoldsUploadAuth
          THEN \A i \in 1..Len(sent') : sent'[i] # "b2_get_upload_url"
          ELSE /\ sent' # <<>>
               /\ sent'[1] = "b2_get_upload_url"
               /\ \A i \in 2..Len(sent') : sent'[i] = "b2_upload_file"]_vars

\* At least one byte of the trailer has been delivered.
TrailerStarted == hash_read > 0 \/ done

\* C27: in every digest-trailing variant, once a trailer byte has been
\* delivered, no byte of the wrapped source is delivered any more and the
\* hash is not updated again, even when the source yields data after it has
\* reported its end: whatever is delivered afterwards is the next digits of
\* the one digest.
C27_NothingAfterTrailer ==
    [][(kind \in DigestKinds /\ TrailerStarted) =>
          /\ hash' = hash
          /\ out' = out \o SubSeq(HexDigest(hash), hash_read + 1, hash_read')]_vars

\* C28: list_all_files_stream ends only when the latest page carried no
\* next_file_name and all of its files have been yielded; it does not end
\* while the latest answer of the server named a next file, an empty page
\* included.
C28_EndsOnlyAfterLastPage ==
    (item = "None") => (page.next_file_name = <<>> /\ batch = <<>> /\ yielded = files)

\* C29: a failed page request makes the stream yield one Err for that pull
\* and leaves next_file_name and the batch as they were; the pull after it
\* issues the request again with the same start name; the stream does not end
\* because of the error, and in the end no file has been skipped or
\* duplicated.
C29_ErrorKeepsSeed ==
    [][/\ (item' = "Err") =>
             (requests' = requests + 1 /\ UNCHANGED <<next_file_name, batch, yielded, page>>)
       /\ (item = "Err") =>
             (batch = <<>> /\ next_file_name # <<>> /\ requests' = requests + 1 /\ asked' = asked)
       /\ yielded' = Take(files, Len(yielded'))
       /\ (item' = "None") => yielded' = files]_vars

C29_Witness ==
    /\ item = "Ok"
    /\ listErrLeft = 0
    /\ Len(files) = 5
    /\ batch_size = 2
    /\ requests = 3
    /\ asked = <<3>>
    /\ yielded = <<1, 2, 3>>
    /\ batch = <<4>>

\* An operation of the engine has been invoked.
OpInvoked == nops' = nops + 1

NeedsAuth == UploadOps \cup {o[1] : o \in AuthorizedOps}

\* C30: while no authenticate / authenticate_from_file has succeeded on an
\* engine not built with from_auth (b2auth is None, and it leaves None only
\* by a successful authenticate), every operation that needs authorization
\* returns B2EngineError without a request and without a change of the engine;
\* the uploads also return B2EngineError while no active bucket is set; a
\* failed authenticate keeps the stored authorization.
C30_Unauthorized ==
    [][/\ (OpInvoked /\ b2auth = <<>> /\ op' \in NeedsAuth) =>
             /\ result' = "B2EngineError"
             /\ sent' = <<>>
             /\ UNCHANGED <<b2auth, active_bucket, upload_auth, granted>>
       /\ (OpInvoked /\ active_bucket = <<>> /\ op' \in UploadOps) =>
             /\ result' = "B2EngineError"
             /\ sent' = <<>>
             /\ UNCHANGED <<b2auth, active_bucket, upload_auth, granted>>
       /\ (OpInvoked /\ op' \in {"authenticate", "authenticate_from_file"}) =>
             IF result' = "None" THEN b2auth' # <<>> ELSE b2auth' = b2auth
       /\ (b2auth' # b2auth) =>
             (op' \in {"authenticate", "authenticate_from_file"} /\ result' = "None")
       /\ (active_bucket' # active_bucket) => op' = "set_active_bucket"]_vars

C30_Witness ==
    /\ op = "delete_file_version"
    /\ result = "B2EngineError"
    /\ b2auth = <<>>
    /\ active_bucket = <<1>>
    /\ sent = <<>>
    /\ nops = 3

=============================================================================
